---- MODULE Spec2Model ----
(***************************************************************************)
(* A model of domo-rpi: the websocket relay (src/src/socket.rs), the SPI   *)
(* transport (src/src/peripheral.rs) and the orchestrator loops            *)
(* (src/src/main.rs).                                                      *)
(*                                                                         *)
(* Spec         the relay: reconnect loop, send threads, inbound dispatch  *)
(*              and the two producers of outbound messages.                *)
(* SpecBackoff  the reconnect loop alone.                                  *)
(* SpecBus      single transport exchanges on the SPI bus.                 *)
(***************************************************************************)
EXTENDS Integers, Sequences, FiniteSets, TLC

(***************************************************************************)
(* Bounds of the model.                                                    *)
(***************************************************************************)
\* connections the relay may establish in one run
MaxConns == 2
\* messages the producers may enqueue in one run
MaxMsgs == 3
\* consecutive Err returns of ws::connect in a row
MaxFails == 7
\* width in bits of the signed timestamps; the code uses i64, the model a
\* narrower two's-complement word with the same overflow behaviour
TsBits == 8

(***************************************************************************)
(* Program constants.                                                      *)
(***************************************************************************)
MaxDelay == 60
SyncWindow == 60

(***************************************************************************)
(* Arithmetic helpers.                                                     *)
(***************************************************************************)
Min2(a, b) == IF a < b THEN a ELSE b

RECURSIVE Pow2(_)
Pow2(n) == IF n = 0 THEN 1 ELSE 2 * Pow2(n - 1)

\* i64 (scaled to TsBits): the least and greatest value
TsMin == 0 - Pow2(TsBits - 1)
TsMax == Pow2(TsBits - 1) - 1

\* exchanges on the shared bus
MaxExchanges == 2

\* turns of the loops of mainloop's threads in one run
MaxCycles == 3

\* calls of raw_to_celsius in one run
MaxCalls == 3

\* polls of resync the model counts before it stops counting
MaxPolls == 3

\* local wall-clock readings of UTC::now().timestamp(): non-negative and far
\* below TsMax - SyncWindow, as real unix times are for i64
Nows == {0, 5}

(***************************************************************************)
(* State.                                                                  *)
(***************************************************************************)
VARIABLES
    proc,           \* "running", or "exited" after process::exit(1)
    pc,             \* the thread of Socket::run: "connect", "open", "sleep", "panicked"
    delay_seconds,  \* Socket::run's local
    conn,           \* connections established so far; the open one when pc = "open"
    verified_time,  \* Socket.verified_time
    chan,           \* the channel rx_msg_to_server / tx_msg_to_server
    st,             \* per connection, its send thread: "unborn", "lock", "recv", "got", "exit"
    held,           \* per connection, the message its send thread has received
    wire,           \* messages out.send accepted, in order, with their connection
    to_orch,        \* the channel rx_msg_from_server / tx_msg_from_server
    \* history variables
    nextId,         \* messages enqueued so far
    fate,           \* per message id: "none", "queued", "held", "dropped", "sent", "lost"
    vtAtRecv,       \* per message id: verified_time when it was dequeued
    timeOkOn,       \* connections on which a time message has set verified_time
    fails,          \* Err returns of ws::connect since the last established connection
    slept,          \* the last duration passed to thread::sleep, 0 before the first
    peak,           \* the greatest value fails has had
    last,           \* what the last on_message call was given
    color,          \* Domo.color
    xfer,           \* the last transport exchange made on its own: call and result
    sync,           \* Peripheral::resync as the resync command runs it, step by step
    conv,           \* the last codec conversion made on its own: call and result
    calib,          \* Domo's calibration constants: configuration, caches, reads made
    domo_lock,      \* the Mutex around Domo: the thread holding it, "" when free
    plan,           \* per thread, the bus operations its exchange has still to make
    spi,            \* the operations made on the bus, each with thread and exchange
    tpc,            \* per thread of mainloop, where it is in its loop
    tx_lock,        \* the Mutex around tx_msg_to_server: its holder, "" when free
    hist            \* the reads and writes the loops have made, in order

vars == <<proc, pc, delay_seconds, conn, verified_time, chan, st, held,
          wire, to_orch, nextId, fate, vtAtRecv, timeOkOn, fails, slept, peak,
          last, color, xfer, sync, conv, calib, domo_lock, plan, spi, tpc,
          tx_lock, hist>>

\* the state of the relay and of the producers
relayVars == <<proc, pc, delay_seconds, conn, verified_time, chan, st, held,
               wire, to_orch, nextId, fate, vtAtRecv, timeOkOn, fails, slept,
               peak, last, color>>

\* the state of the commands that run on their own
cliVars == <<xfer, sync, conv, calib>>

\* the state of the shared bus
busVars == <<domo_lock, plan, spi>>

\* the state of the loops of mainloop's threads
orchVars == <<tpc, tx_lock, hist>>

\* the relay's state that the loops of mainloop's threads leave alone
socketVars == <<proc, pc, delay_seconds, conn, verified_time, st, held, wire,
                to_orch, vtAtRecv, timeOkOn, fails, slept, peak, last>>

Conns == 1..MaxConns
MsgIds == 1..MaxMsgs
NoMsg == [id |-> 0, kind |-> "none"]

(***************************************************************************)
(* Bytes and 32-bit words.  A u32 is kept as two 16-bit halves [hi, lo].   *)
(***************************************************************************)
Byte == 0..255

U32(hi, lo) == [hi |-> hi, lo |-> lo]

\* (b as u32) << (8 * k), k in 0..3
U32ShlByte(b, k) ==
    CASE k = 0 -> U32(0, b)
      [] k = 1 -> U32(0, b * 256)
      [] k = 2 -> U32(b, 0)
      [] OTHER -> U32(b * 256, 0)

\* u >> 8
U32Shr8(u) == U32(u.hi \div 256, (u.hi % 256) * 256 + (u.lo \div 256))

\* u + v modulo 2^32
U32Add(u, v) ==
    LET lo == u.lo + v.lo
        hi == u.hi + v.hi + (lo \div 65536)
    IN  U32(hi % 65536, lo % 65536)

\* the four bytes of u, most significant first
U32Bytes(u) == <<u.hi \div 256, u.hi % 256, u.lo \div 256, u.lo % 256>>

RECURSIVE XorBits(_, _, _)
XorBits(a, b, n) ==
    IF n = 0 THEN 0
    ELSE ((a + b) % 2) + 2 * XorBits(a \div 2, b \div 2, n - 1)

\* a ^ b on bytes
Xor8(a, b) == XorBits(a, b, 8)

(***************************************************************************)
(* CRC-8, MSB first: the crc8 crate.  Crc8::create_msb(polynomial) builds  *)
(* a table of 256 entries and calc folds the buffer through it.            *)
(***************************************************************************)
RECURSIVE Crc8Shift(_, _, _)
Crc8Shift(crc, poly, n) ==
    IF n = 0 THEN crc
    ELSE Crc8Shift(IF crc >= 128 THEN Xor8((crc * 2) % 256, poly)
                   ELSE (crc * 2) % 256,
                   poly, n - 1)

CRC_POLY == 7

\* Crc8::create_msb(0x07)
Crc8Table == [b \in Byte |-> Crc8Shift(b, CRC_POLY, 8)]

\* Crc8::calc(buf, n, crc)
RECURSIVE Crc8Calc(_, _, _)
Crc8Calc(buf, n, crc) ==
    IF n = 0 THEN crc
    ELSE Crc8Calc(Tail(buf), n - 1, Crc8Table[Xor8(crc, Head(buf))])

RECURSIVE OrBits(_, _, _)
OrBits(a, b, n) ==
    IF n = 0 THEN 0
    ELSE (IF (a % 2) + (b % 2) > 0 THEN 1 ELSE 0) + 2 * OrBits(a \div 2, b \div 2, n - 1)

\* a | b on bytes
Or8(a, b) == OrBits(a, b, 8)

(***************************************************************************)
(* Transport: src/src/peripheral.rs                                        *)
(***************************************************************************)
TYPE_GETTER2 == 0
TYPE_GETTER4 == 64
TYPE_SETTER2 == 128
TYPE_SETTER4 == 192

CMD_COLOR == 5
CMD_TEMP_NOW == 17
CMD_TEMP_AVG == 18
CMD_TEMP_RAW == 19
CMD_TEMP_RSUM == 20
CMD_TEMP_SRES == 21
CMD_TEMP_NRES == 22
CMD_TEMP_BCOE == 23
CMD_TEST == 32

START_BYTE == 255

Opcodes == {CMD_COLOR, CMD_TEMP_NOW, CMD_TEMP_AVG, CMD_TEMP_RAW, CMD_TEMP_RSUM,
            CMD_TEMP_SRES, CMD_TEMP_NRES, CMD_TEMP_BCOE, CMD_TEST}

BusWrite(b) == [op |-> "write", byte |-> b]
BusRead(b) == [op |-> "read", byte |-> b]

\* the reads without the one that takes the start byte
BusReadsFromData(rx, n) == [i \in 1..(n - 1) |-> BusRead(rx[i + 1])]

\* the first n bytes of rx, each taken by one spi.read
BusReads(rx, n) == [i \in 1..n |-> BusRead(rx[i])]

\* any length let through
AnyLength(length) == TRUE

\* match length { 2 => ..., 4 => ..., _ => panic!(..) }
ValidLength(length) == length = 2 \/ length = 4

GetterCmd(cmd, length) ==
    IF length = 2 THEN Or8(cmd, TYPE_GETTER2) ELSE Or8(cmd, TYPE_GETTER4)

SetterCmd(cmd, length) ==
    IF length = 2 THEN Or8(cmd, TYPE_SETTER2) ELSE Or8(cmd, TYPE_SETTER4)

\* the loop of read_number that assembles the result from buf[1..length]
RECURSIVE DecodeNumber(_, _, _, _)
DecodeNumber(data, length, i, result) ==
    IF i > length THEN result
    ELSE DecodeNumber(data, length, i + 1,
                      U32Add(U32Shr8(result), U32ShlByte(data[i], length - 1)))

\* the check inverted: a matching checksum is the failure
ChecksumFailsOnMatch(crc, crc2) == crc = crc2

\* if crc != crc2 { return Err }
ChecksumFails(crc, crc2) == crc # crc2

BusResult(status, err, val, ops) ==
    [status |-> status, err |-> err, val |-> val, ops |-> ops]

\* Peripheral::read_number(cmd, length), the peripheral answering the
\* successive single-byte reads with rx[1], rx[2], ...; the ioAt-th bus
\* operation fails with an I/O error (0: none does)
read_number(cmd, length, rx, ioAt) ==
    IF ~ValidLength(length) THEN BusResult("panic", "length", U32(0, 0), <<>>)
    ELSE
    LET rawcmd == GetterCmd(cmd, length)
        w      == <<BusWrite(rawcmd)>>
        data   == [i \in 1..length |-> rx[i + 1]]
        crc    == rx[length + 2]
        crc2   == Crc8Calc(<<rawcmd>> \o data, length + 1, 0)
    IN  IF ioAt = 1 THEN BusResult("Err", "io", U32(0, 0), <<>>)
        ELSE IF ioAt = 2 THEN BusResult("Err", "io", U32(0, 0), w)
        ELSE IF rx[1] # START_BYTE
             THEN BusResult("Err", "start", U32(0, 0), w \o BusReads(rx, 1))
        ELSE IF ioAt \in 3..(length + 3)
             THEN BusResult("Err", "io", U32(0, 0), w \o BusReads(rx, ioAt - 2))
        ELSE IF ChecksumFails(crc, crc2)
             THEN BusResult("Err", "crc", U32(0, 0), w \o BusReads(rx, length + 2))
        ELSE BusResult("Ok", "", DecodeNumber(data, length, 1, U32(0, 0)),
                       w \o BusReads(rx, length + 2))

\* the bytes of value most significant first
RECURSIVE EncodeNumberBigEndian(_, _)
EncodeNumberBigEndian(value2, n) ==
    IF n = 0 THEN <<>>
    ELSE EncodeNumberBigEndian(U32Shr8(value2), n - 1) \o <<value2.lo % 256>>

\* the loop of write_number that serialises value into buf[1..length]
RECURSIVE EncodeNumber(_, _)
EncodeNumber(value2, n) ==
    IF n = 0 THEN <<>>
    ELSE <<value2.lo % 256>> \o EncodeNumber(U32Shr8(value2), n - 1)

\* Peripheral::write_number(cmd, length, value); ioAt as for read_number
write_number(cmd, length, value, ioAt) ==
    IF ~ValidLength(length) THEN BusResult("panic", "length", U32(0, 0), <<>>)
    ELSE
    LET rawcmd == SetterCmd(cmd, length)
        body   == <<rawcmd>> \o EncodeNumber(value, length)
        buf    == body \o <<Crc8Calc(body, length + 1, 0)>>
        n      == IF ioAt \in 1..(length + 2) THEN ioAt - 1 ELSE length + 2
    IN  BusResult(IF n = length + 2 THEN "Ok" ELSE "Err",
                  IF n = length + 2 THEN "" ELSE "io",
                  U32(0, 0),
                  [i \in 1..n |-> BusWrite(buf[i])])

(***************************************************************************)
(* Codec: src/src/messages.in.rs, struct Color.                            *)
(* An f32 channel is kept as an integer count of half byte-steps: the      *)
(* value n stands for n / 510, so byte b decodes to 2 * b.  The time       *)
(* channel is kept as a count of eighths of a second.                      *)
(***************************************************************************)
COLOR_FLAG_WHITE == 128
COLOR_FLAG_LOOPING == 64
COLOR_MODE_MASK == 3
COLOR_MODE_RGB == 0
COLOR_MODE_HSV == 1
COLOR_MODE_HSV_MAX == 2
COLOR_MODE_UNDEF1 == 3

\* b as f32 / 255.0
ChanFromByte(b) == 2 * b

\* x.round(): half away from zero, for a count n of halves
RoundHalves(n) == IF n >= 0 THEN (n + 1) \div 2 ELSE 0 - ((1 - n) \div 2)

\* (x * 255.0).round() as u8
ChanToByte(n) ==
    LET r == RoundHalves(n)
    IN  IF r < 0 THEN 0 ELSE IF r > 255 THEN 255 ELSE r

\* the ufloat8 crate, by its contract: an 8-bit float of a 4-bit exponent
\* and a 4-bit mantissa, expanded to an integer
ufloat8_decode(v) ==
    LET e == v \div 16
        m == v % 16
    IN  IF e = 0 THEN m ELSE (16 + m) * Pow2(e - 1)

\* the greatest byte whose expansion does not exceed x
ufloat8_encode(x) ==
    CHOOSE v \in Byte :
        /\ ufloat8_decode(v) <= x
        /\ \A w \in Byte : ufloat8_decode(w) <= x => w <= v

\* Color::new(): the derived Default
ColorNew ==
    [mode |-> "", is_white |-> FALSE, is_looping |-> FALSE,
     hue |-> 0, time |-> 0, saturation |-> 0, value |-> 0,
     red |-> 0, green |-> 0, blue |-> 0]

ModeName(mode) ==
    CASE mode = COLOR_MODE_RGB -> "rgb"
      [] mode = COLOR_MODE_HSV -> "hsv"
      [] mode = COLOR_MODE_HSV_MAX -> "hsv-max"
      [] OTHER -> "undefined-1"

\* the flag looked for in the byte already cut down to its mode bits
FlagSetInMode(byte, flag) == ((byte % (COLOR_MODE_MASK + 1)) \div flag) % 2 = 1

\* (bytes[0] & flag) != 0, flag a single bit
FlagSet(byte, flag) == (byte \div flag) % 2 = 1

\* Color::update(&mut self, value)
ColorUpdate(self, raw) ==
    LET bytes   == U32Bytes(raw)
        mode    == bytes[1] % (COLOR_MODE_MASK + 1)
        white   == FlagSet(bytes[1], COLOR_FLAG_WHITE)
        looping == FlagSet(bytes[1], COLOR_FLAG_LOOPING)
        base    == [self EXCEPT !.mode = ModeName(mode),
                                !.is_white = white,
                                !.is_looping = looping]
    IN  IF mode = COLOR_MODE_RGB
        THEN [base EXCEPT !.red = ChanFromByte(bytes[2]),
                          !.green = ChanFromByte(bytes[3]),
                          !.blue = ChanFromByte(bytes[4])]
        ELSE IF mode = COLOR_MODE_HSV \/ mode = COLOR_MODE_HSV_MAX
        THEN LET b == IF looping
                      THEN [base EXCEPT !.time = 2 * ufloat8_decode(bytes[2])]
                      ELSE [base EXCEPT !.hue = ChanFromByte(bytes[2])]
             IN  [b EXCEPT !.saturation = ChanFromByte(bytes[3]),
                           !.value = ChanFromByte(bytes[4])]
        ELSE base

\* Color::from_raw(value)
ColorFromRaw(raw) == ColorUpdate(ColorNew, raw)

\* Color::raw(&self)
ColorRaw(self) ==
    LET m  == CASE self.mode = "rgb" -> COLOR_MODE_RGB
                [] self.mode = "hsv" -> COLOR_MODE_HSV
                [] self.mode = "hsv-max" -> COLOR_MODE_HSV_MAX
                [] OTHER -> COLOR_MODE_UNDEF1
        b0 == m + (IF self.is_white THEN COLOR_FLAG_WHITE ELSE 0)
                + (IF self.is_looping THEN COLOR_FLAG_LOOPING ELSE 0)
        ch == IF self.mode = "rgb"
              THEN <<ChanToByte(self.red), ChanToByte(self.green), ChanToByte(self.blue)>>
              ELSE IF self.mode = "hsv" \/ self.mode = "hsv-max"
              THEN <<IF self.is_looping
                     THEN ufloat8_encode(RoundHalves(self.time))
                     ELSE ChanToByte(self.hue),
                     ChanToByte(self.saturation), ChanToByte(self.value)>>
              ELSE <<0, 0, 0>>
    IN  U32(b0 * 256 + ch[1], ch[2] * 256 + ch[3])

(***************************************************************************)
(* Inbound frames: ws::Message and, for text that parses, MsgServer.       *)
(***************************************************************************)
InMsg(frame, parsed, message, hasName, name, hasTs, ts, hasValue, value) ==
    [frame |-> frame, parsed |-> parsed, message |-> message,
     hasName |-> hasName, name |-> name, hasTs |-> hasTs, timestamp |-> ts,
     hasValue |-> hasValue, value |-> value]

BinaryMsgs == {InMsg("binary", FALSE, "", FALSE, "", FALSE, 0, FALSE, ColorNew)}

\* text that serde_json::from_str::<MsgServer> rejects
MalformedMsgs == {InMsg("text", FALSE, "", FALSE, "", FALSE, 0, FALSE, ColorNew)}

Timestamps == {TsMin, TsMin + 5, 0 - 60, 0 - 59, 0 - 55, 0 - 54, 0, 59, 60, 64, 65, TsMax}

TimeMsgs ==
    {InMsg("text", TRUE, "time", FALSE, "", TRUE, t, FALSE, ColorNew) : t \in Timestamps}
    \cup {InMsg("text", TRUE, "time", FALSE, "", FALSE, 0, FALSE, ColorNew)}

ServerColors == {ColorFromRaw(U32(255, 0)), [ColorNew EXCEPT !.mode = "party"]}

ActuatorMsgs ==
    {InMsg("text", TRUE, "actuator", TRUE, n, FALSE, 0, TRUE, c) :
        n \in {"color", "fan"}, c \in ServerColors}
    \cup {InMsg("text", TRUE, "actuator", TRUE, n, FALSE, 0, FALSE, ColorNew) :
        n \in {"color", "fan"}}
    \cup {InMsg("text", TRUE, "actuator", FALSE, "", FALSE, 0, h, ColorNew) :
        h \in BOOLEAN}

UnknownMsgs == {InMsg("text", TRUE, "sensorLog", FALSE, "", FALSE, 0, FALSE, ColorNew)}

InMsgs == BinaryMsgs \cup MalformedMsgs \cup TimeMsgs \cup ActuatorMsgs \cup UnknownMsgs

\* what `last` keeps of a frame and of the clock reading it was handled at
MsgShape(m, now) ==
    [frame |-> m.frame, parsed |-> m.parsed, message |-> m.message,
     hasName |-> m.hasName, name |-> m.name, hasTs |-> m.hasTs,
     timestamp |-> m.timestamp, hasValue |-> m.hasValue, now |-> now]

NoShape ==
    [frame |-> "none", parsed |-> FALSE, message |-> "", hasName |-> FALSE,
     name |-> "", hasTs |-> FALSE, timestamp |-> 0, hasValue |-> FALSE, now |-> 0]

(***************************************************************************)
(* Relay: src/src/socket.rs                                                *)
(***************************************************************************)
\* i64 arithmetic at TsBits bits
TsWrap(x) == ((x - TsMin) % Pow2(TsBits)) + TsMin
TsInRange(x) == TsMin <= x /\ x <= TsMax

\* (value - timestamp).abs() < 60: "yes", "no", or "panic" where a debug
\* build traps the overflow that a release build wraps
InSync(value, timestamp, bld) ==
    LET d == value - timestamp
        w == TsWrap(d)
        a == IF w < 0 THEN TsWrap(0 - w) ELSE w
    IN  IF bld = "debug" /\ (~TsInRange(d) \/ w = TsMin) THEN "panic"
        ELSE IF a < SyncWindow THEN "yes" ELSE "no"

\* text that does not parse treated like a binary frame
OnParseErrorFatal == "exit"

\* what on_message returns for text that does not parse
OnParseError == "Ok"

OnMessageResult(ret, verified, set, fwd) ==
    [ret |-> ret, verified |-> verified, set |-> set, fwd |-> fwd]

\* Socket::on_message: ret is "Ok" for Ok(()), "exit" for process::exit(1),
\* "panic" for a panic of the calling thread; fwd is what it sends on to the
\* orchestrator
on_message(m, now, vt, bld) ==
    IF m.frame = "binary" THEN OnMessageResult("exit", vt, FALSE, <<>>)
    ELSE IF ~m.parsed THEN OnMessageResult(OnParseError, vt, FALSE, <<>>)
    ELSE IF m.message = "time"
    THEN IF m.hasTs
         THEN LET g == InSync(m.timestamp, now, bld)
              IN  IF g = "panic" THEN OnMessageResult("panic", vt, FALSE, <<>>)
                  ELSE IF g = "yes" THEN OnMessageResult("Ok", TRUE, TRUE, <<>>)
                  ELSE OnMessageResult("Ok", vt, FALSE, <<>>)
         ELSE OnMessageResult("Ok", vt, FALSE, <<>>)
    ELSE IF m.message = "actuator"
    THEN OnMessageResult("Ok", vt, FALSE, <<>>)
    ELSE OnMessageResult("Ok", vt, FALSE, <<>>)

\* the doubling without its cap
BackoffNoCap(d) == d * 2

\* a step of one second instead of the doubling
BackoffLinear(d) == Min2(MaxDelay, d + 1)

\* delay_seconds = cmp::min(60, delay_seconds * 2)
Backoff(d) == Min2(MaxDelay, d * 2)

\* delay_seconds = 1 in the closure given to ws::connect
ConnectedDelay == 1

\* the gate left open
GateAlwaysPasses(vt) == TRUE

\* if !*verified_time.lock().unwrap() { continue }
GatePasses(vt) == vt

\* the newest message taken first
ChanRecvNewest(q) == [msg |-> q[Len(q)], rest |-> SubSeq(q, 1, Len(q) - 1)]

\* rx_msg_to_server.recv(): the message taken and what stays queued
ChanRecv(q) == [msg |-> Head(q), rest |-> Tail(q)]

\* tx_msg_to_server.send(msg)
ChanSend(q, msg) == Append(q, msg)

Running == proc = "running"

\* the flag's lock kept as long as the receiver's
SendHoldsFlag(c) ==
    IF st[c] \in {"recv", "got"} THEN {"rx_msg_to_server", "verified_time"} ELSE {}

\* the locks the send thread of connection c holds from one step to the
\* next: the guard of rx_msg_to_server_mutex lives as long as the thread,
\* the guard of verified_time only within the if condition
SendHolds(c) ==
    IF st[c] \in {"recv", "got"} THEN {"rx_msg_to_server"} ELSE {}

LocksHeld == UNION {SendHolds(c) : c \in Conns}

LockHeld == "rx_msg_to_server" \in LocksHeld

(***************************************************************************)
(* The reconnect loop of Socket::run.                                      *)
(***************************************************************************)
\* ws::connect returns Err without having called the closure
ConnectFail ==
    /\ Running /\ pc = "connect" /\ fails < MaxFails
    /\ delay_seconds' = Backoff(delay_seconds)
    /\ slept' = delay_seconds'
    /\ fails' = fails + 1
    /\ peak' = IF fails + 1 > peak THEN fails + 1 ELSE peak
    /\ pc' = "sleep"
    /\ UNCHANGED <<proc, conn, verified_time, chan, st, held, wire, to_orch,
                   nextId, fate, vtAtRecv, timeOkOn, last, color, cliVars, busVars, orchVars>>

\* no hello at all
SendHelloNothing(w, c) == w

\* send_hello: out.send(msg_connect_encoded) puts the hello on connection c
SendHello(w, c) == Append(w, [conn |-> c, kind |-> "connect", id |-> 0])

\* ws::connect calls the closure: delay reset, send_hello, send thread spawned
ConnectOpen(helloOk) ==
    /\ Running /\ pc = "connect" /\ conn < MaxConns
    /\ delay_seconds' = ConnectedDelay
    /\ conn' = conn + 1
    /\ fails' = 0
    /\ IF helloOk
       THEN /\ wire' = SendHello(wire, conn + 1)
            /\ st' = [st EXCEPT ![conn + 1] = "lock"]
            /\ pc' = "open"
            /\ proc' = proc
       ELSE /\ proc' = "exited"
            /\ UNCHANGED <<wire, st, pc>>
    /\ UNCHANGED <<verified_time, chan, held, to_orch, nextId, fate, vtAtRecv,
                   timeOkOn, slept, last, color, cliVars, busVars, orchVars, peak>>

\* how the program was built: what an integer overflow does depends on it
Builds == {"debug", "release"}

\* the handler returned by the closure: self.on_message(msg_encoded)
OnMessage(m, now) ==
    /\ Running /\ pc = "open"
    /\ \E bld \in Builds :
       LET r == on_message(m, now, verified_time, bld)
       IN  /\ verified_time' = r.verified
           /\ r.set => "verified_time" \notin LocksHeld
           /\ timeOkOn' = IF r.set THEN timeOkOn \cup {conn} ELSE timeOkOn
           /\ to_orch' = to_orch \o r.fwd
           /\ proc' = IF r.ret = "exit" THEN "exited" ELSE proc
           /\ pc' = IF r.ret = "panic" THEN "panicked" ELSE pc
    /\ last' = MsgShape(m, now)
    /\ UNCHANGED <<delay_seconds, conn, chan, st, held, wire, nextId, fate,
                   vtAtRecv, fails, slept, color, cliVars, busVars, orchVars, peak>>

\* the connection ends and ws::connect returns Ok
CloseOk ==
    /\ Running /\ pc = "open"
    /\ slept' = delay_seconds
    /\ pc' = "sleep"
    /\ UNCHANGED <<proc, delay_seconds, conn, verified_time, chan, st, held,
                   wire, to_orch, nextId, fate, vtAtRecv, timeOkOn, fails, last,
                   color, cliVars, busVars, orchVars, peak>>

\* the connection ends and ws::connect returns Err
CloseErr ==
    /\ Running /\ pc = "open" /\ fails < MaxFails
    /\ delay_seconds' = Backoff(delay_seconds)
    /\ slept' = delay_seconds'
    /\ fails' = fails + 1
    /\ peak' = IF fails + 1 > peak THEN fails + 1 ELSE peak
    /\ pc' = "sleep"
    /\ UNCHANGED <<proc, conn, verified_time, chan, st, held, wire, to_orch,
                   nextId, fate, vtAtRecv, timeOkOn, last, color, cliVars, busVars, orchVars>>

\* thread::sleep returns: "Reconnecting..."
Wake ==
    /\ Running /\ pc = "sleep"
    /\ pc' = "connect"
    /\ UNCHANGED <<proc, delay_seconds, conn, verified_time, chan, st, held,
                   wire, to_orch, nextId, fate, vtAtRecv, timeOkOn, fails, slept,
                   last, color, cliVars, busVars, orchVars, peak>>

(***************************************************************************)
(* The send thread spawned for connection c.                               *)
(***************************************************************************)
\* rx_msg_to_server_mutex.lock().unwrap()
SendLock(c) ==
    /\ Running /\ st[c] = "lock" /\ ~LockHeld
    /\ st' = [st EXCEPT ![c] = "recv"]
    /\ UNCHANGED <<proc, pc, delay_seconds, conn, verified_time, chan, held,
                   wire, to_orch, nextId, fate, vtAtRecv, timeOkOn, fails, slept,
                   last, color, cliVars, busVars, orchVars, peak>>

\* rx_msg_to_server.recv().unwrap()
SendRecv(c) ==
    /\ Running /\ st[c] = "recv" /\ chan # <<>>
    /\ LET r == ChanRecv(chan)
       IN  /\ held' = [held EXCEPT ![c] = r.msg]
           /\ chan' = r.rest
           /\ fate' = [fate EXCEPT ![r.msg.id] = "held"]
           /\ vtAtRecv' = [vtAtRecv EXCEPT ![r.msg.id] = verified_time]
    /\ st' = [st EXCEPT ![c] = "got"]
    /\ UNCHANGED <<proc, pc, delay_seconds, conn, verified_time, wire, to_orch,
                   nextId, timeOkOn, fails, slept, last, color, cliVars, busVars, orchVars, peak>>

\* the check of verified_time, then out.send(msg); sendOk is what the
\* websocket answers while the thread's connection is the open one
SendCheck(c, sendOk) ==
    /\ Running /\ st[c] = "got"
    /\ held' = [held EXCEPT ![c] = NoMsg]
    /\ IF ~GatePasses(verified_time)
       THEN /\ fate' = [fate EXCEPT ![held[c].id] = "dropped"]
            /\ st' = [st EXCEPT ![c] = "recv"]
            /\ wire' = wire
       ELSE IF c = conn /\ pc = "open" /\ sendOk
       THEN /\ fate' = [fate EXCEPT ![held[c].id] = "sent"]
            /\ st' = [st EXCEPT ![c] = "recv"]
            /\ wire' = Append(wire, [conn |-> c, kind |-> held[c].kind, id |-> held[c].id])
       ELSE /\ fate' = [fate EXCEPT ![held[c].id] = "lost"]
            /\ st' = [st EXCEPT ![c] = "exit"]
            /\ wire' = wire
    /\ UNCHANGED <<proc, pc, delay_seconds, conn, verified_time, chan, to_orch,
                   nextId, vtAtRecv, timeOkOn, fails, slept, last, color, cliVars, busVars, orchVars, peak>>

(***************************************************************************)
(* What the peripheral may answer.                                         *)
(***************************************************************************)
\* a well-formed response to rawcmd carrying data
GoodFrame(rawcmd, data) ==
    <<START_BYTE>> \o data \o <<Crc8Calc(<<rawcmd>> \o data, Len(data) + 1, 0)>>

\* the frame with bit 0 of its checksum byte flipped
BadCrc(frame) == [frame EXCEPT ![Len(frame)] = Xor8(frame[Len(frame)], 1)]

\* the frame with a start byte other than 0xff
BadStart(frame) == [frame EXCEPT ![1] = 0]

Answers(rawcmd, datas) ==
    UNION {{GoodFrame(rawcmd, d), BadCrc(GoodFrame(rawcmd, d)),
            BadStart(GoodFrame(rawcmd, d))} : d \in datas}

\* temperature readings: 6000 (5.00 C)
TempAnswers == Answers(GetterCmd(CMD_TEMP_AVG, 2), {<<112, 23>>})

\* the colour word the peripheral holds: hsv 01 20 ff ff
ColorWords == {U32(288, 65535)}

ColorAnswers ==
    Answers(GetterCmd(CMD_COLOR, 4), {EncodeNumber(w, 4) : w \in ColorWords})

\* where a bus I/O error may strike in a polling cycle: nowhere, or at the
\* first data byte
CycleIoAt == {0, 3}

(***************************************************************************)
(* The producers of main.rs.                                               *)
(***************************************************************************)
Enqueue(kind) ==
    /\ "tx_msg_to_server" \notin LocksHeld
    /\ chan' = ChanSend(chan, [id |-> nextId + 1, kind |-> kind])
    /\ nextId' = nextId + 1
    /\ fate' = [fate EXCEPT ![nextId + 1] = "queued"]

\* log(domo, Some(tx_msg_to_server)), one turn of the loop of mainloop
LogCycle(rx, ioAt) ==
    /\ Running /\ nextId < MaxMsgs
    /\ LET r == read_number(CMD_TEMP_AVG, 2, rx, ioAt)
       IN  IF r.status = "Ok"
           THEN Enqueue("sensorLog")
           ELSE UNCHANGED <<chan, nextId, fate>>
    /\ UNCHANGED <<proc, pc, delay_seconds, conn, verified_time, st, held,
                   wire, to_orch, vtAtRecv, timeOkOn, fails, slept, last, color, cliVars, busVars, orchVars, peak>>

\* one turn of the loop of actuator_to_server
ActuatorCycle(rx, ioAt) ==
    /\ Running /\ nextId < MaxMsgs
    /\ LET r == read_number(CMD_COLOR, 4, rx, ioAt)
       IN  IF r.status = "Ok" /\ ColorRaw(color) # r.val
           THEN /\ color' = ColorUpdate(color, r.val)
                /\ Enqueue("actuator")
           ELSE UNCHANGED <<color, chan, nextId, fate>>
    /\ UNCHANGED <<proc, pc, delay_seconds, conn, verified_time, st, held,
                   wire, to_orch, vtAtRecv, timeOkOn, fails, slept, last, cliVars, busVars, orchVars, peak>>

(***************************************************************************)
(* Single transport exchanges, as the command line makes them.             *)
(***************************************************************************)
Lengths == {2, 4}
DataBytes == {23, 112, 255}
IoAts == {0, 2, 4}

\* every answer to read_number(cmd, length) the model tries: either start
\* byte, every data over DataBytes, and a right, a wrong and a zero checksum
RxSeqs(cmd, length) ==
    LET rawcmd == GetterCmd(cmd, length)
    IN  UNION {{GoodFrame(rawcmd, d), BadCrc(GoodFrame(rawcmd, d)),
                BadStart(GoodFrame(rawcmd, d)), BadStart(BadCrc(GoodFrame(rawcmd, d))),
                [GoodFrame(rawcmd, d) EXCEPT ![length + 2] = 0]} :
               d \in [1..length -> DataBytes]}

NoXfer ==
    [call |-> "none", cmd |-> 0, length |-> 0, rx |-> <<>>, value |-> U32(0, 0),
     ioAt |-> 0, res |-> BusResult("none", "", U32(0, 0), <<>>)]

\* lengths outside the contract of read_number and write_number (a u8)
BadLengths == {0, 3, 5}

\* words given to write_number: 6000, 0x12345678, 0x0120ffff, 0xffffffff
WriteValues == {U32(0, 6000), U32(4660, 22136), U32(288, 65535), U32(65535, 65535)}

\* where a bus operation of write_number may fail
WriteIoAts == {0, 1, 3}

\* the command line makes one exchange per run
ReadNumberCall(cmd, length, rx, ioAt) ==
    /\ xfer = NoXfer
    /\ xfer' = [call |-> "read_number", cmd |-> cmd, length |-> length, rx |-> rx,
                value |-> U32(0, 0), ioAt |-> ioAt,
                res |-> read_number(cmd, length, rx, ioAt)]
    /\ UNCHANGED <<proc, pc, delay_seconds, conn, verified_time, chan, st,
                   held, wire, to_orch, nextId, fate, vtAtRecv, timeOkOn, fails,
                   slept, last, color, peak, sync, conv, calib, busVars, orchVars>>

WriteNumberCall(cmd, length, value, ioAt) ==
    /\ xfer = NoXfer
    /\ xfer' = [call |-> "write_number", cmd |-> cmd, length |-> length, rx |-> <<>>,
                value |-> value, ioAt |-> ioAt,
                res |-> write_number(cmd, length, value, ioAt)]
    /\ UNCHANGED <<proc, pc, delay_seconds, conn, verified_time, chan, st,
                   held, wire, to_orch, nextId, fate, vtAtRecv, timeOkOn, fails,
                   slept, last, color, peak, sync, conv, calib, busVars, orchVars>>

(***************************************************************************)
(* Codec conversions made on their own.                                    *)
(***************************************************************************)
\* raw words: every first byte, with second bytes that are a hue or a
\* micro-float, and two pairs of low bytes
ConvWords ==
    {U32(b0 * 256 + b1, lo) : b0 \in Byte, b1 \in {0, 72, 255}, lo \in {65535, 128}}

\* colours as a server may send them: any mode string, any flags
ConvColors ==
    {[ColorFromRaw(U32(255, 32768)) EXCEPT !.mode = md, !.is_white = w, !.is_looping = l] :
        md \in {"rgb", "hsv", "hsv-max", "undefined-1", "party", ""},
        w \in BOOLEAN, l \in BOOLEAN}

NoConv ==
    [call |-> "none", raw |-> U32(0, 0), color |-> ColorNew, out |-> U32(0, 0)]

\* Color::from_raw(raw) and then raw(), as test_color_conversion and the
\* comparison in actuator_to_server make them
FromRawCall(raw) ==
    /\ conv = NoConv
    /\ conv' = [call |-> "from_raw", raw |-> raw, color |-> ColorFromRaw(raw),
                out |-> ColorRaw(ColorFromRaw(raw))]
    /\ UNCHANGED <<relayVars, xfer, sync, calib, busVars, orchVars>>

\* msg_from_server: domo.color = value; domo.color.raw(), the peripheral
\* holding the word raw
RawCall(c, raw) ==
    /\ conv = NoConv
    /\ conv' = [call |-> "raw", raw |-> raw, color |-> c, out |-> ColorRaw(c)]
    /\ UNCHANGED <<relayVars, xfer, sync, calib, busVars, orchVars>>

(***************************************************************************)
(* The calibration constants of Domo: Config supplies them or the          *)
(* peripheral does, and Domo caches what it has read.  An Option<f64> is   *)
(* a record [some, v].                                                     *)
(***************************************************************************)
None == [some |-> FALSE, v |-> 0]
Some(v) == [some |-> TRUE, v |-> v]

\* what the configuration file may give for each constant
ConfigBCoefficients == {None, Some(3435)}
ConfigNominalRs == {None, Some(22000)}
ConfigSeriesResistors == {None, Some(33000)}

\* the constants the peripheral holds, by opcode
DevConstants ==
    {[c \in {CMD_TEMP_BCOE, CMD_TEMP_NRES, CMD_TEMP_SRES} |->
         CASE c = CMD_TEMP_BCOE -> 3950
           [] c = CMD_TEMP_NRES -> 10000
           [] c = CMD_TEMP_SRES -> s] : s \in {4700, 10000}}

\* the getter that fails in a call of raw_to_celsius, if its read is made
CalibFails == {"none", "b_coefficient", "nominal_r", "series_resistor"}

\* Domo before Domo::new
NoCalib ==
    [phase |-> "none",
     config |-> [temp_b_coefficient |-> None, temp_nominal_r |-> None,
                 temp_series_resistor |-> None],
     temp_b_coefficient |-> None, temp_nominal_r |-> None,
     temp_series_resistor |-> None,
     dev |-> [c \in {CMD_TEMP_BCOE, CMD_TEMP_NRES, CMD_TEMP_SRES} |-> 0],
     reads |-> [c \in {CMD_TEMP_BCOE, CMD_TEMP_NRES, CMD_TEMP_SRES} |-> 0],
     calls |-> 0, ret |-> "none"]

\* what a getter returns: Ok(v) or Err, and Domo as the getter leaves it
Got(status, v, d) == [status |-> status, v |-> v, d |-> d]

\* try!(self.peripheral.read_number(cmd, 2)) as f64, the read failing or not
ReadConstant(d, cmd, ioErr) ==
    IF ioErr THEN Got("Err", 0, d)
    ELSE Got("Ok", d.dev[cmd], [d EXCEPT !.reads[cmd] = @ + 1])

\* Domo::get_temp_b_coefficient
get_temp_b_coefficient(d, ioErr) ==
    IF d.config.temp_b_coefficient.some THEN Got("Ok", d.config.temp_b_coefficient.v, d)
    ELSE IF d.temp_b_coefficient.some THEN Got("Ok", d.temp_b_coefficient.v, d)
    ELSE LET r == ReadConstant(d, CMD_TEMP_BCOE, ioErr)
         IN  IF r.status = "Err" THEN r
             ELSE Got("Ok", r.v, [r.d EXCEPT !.temp_b_coefficient = Some(r.v)])

\* Domo::get_temp_nominal_r
get_temp_nominal_r(d, ioErr) ==
    IF d.config.temp_nominal_r.some THEN Got("Ok", d.config.temp_nominal_r.v, d)
    ELSE IF d.temp_nominal_r.some THEN Got("Ok", d.temp_nominal_r.v, d)
    ELSE LET r == ReadConstant(d, CMD_TEMP_NRES, ioErr)
         IN  IF r.status = "Err" THEN r
             ELSE Got("Ok", r.v, [r.d EXCEPT !.temp_nominal_r = Some(r.v)])

\* Domo::get_temp_series_resistor: it matches on self.config.temp_nominal_r
\* and stores what it reads in self.temp_nominal_r
get_temp_series_resistor(d, ioErr) ==
    IF d.config.temp_nominal_r.some THEN Got("Ok", d.config.temp_nominal_r.v, d)
    ELSE IF d.temp_series_resistor.some THEN Got("Ok", d.temp_series_resistor.v, d)
    ELSE LET r == ReadConstant(d, CMD_TEMP_SRES, ioErr)
         IN  IF r.status = "Err" THEN r
             ELSE Got("Ok", r.v, [r.d EXCEPT !.temp_nominal_r = Some(r.v)])

\* Domo::raw_to_celsius as far as the constants go: the three getters in
\* turn, each under try!
raw_to_celsius(d, fail) ==
    LET b == get_temp_b_coefficient(d, fail = "b_coefficient")
    IN  IF b.status = "Err" THEN b
        ELSE LET r0 == get_temp_nominal_r(b.d, fail = "nominal_r")
             IN  IF r0.status = "Err" THEN r0
                 ELSE get_temp_series_resistor(r0.d, fail = "series_resistor")

\* Domo::new: the configuration is loaded; the peripheral holds dev
DomoNew(cb, cn, cs, dev) ==
    /\ calib.phase = "none"
    /\ calib' = [calib EXCEPT !.phase = "ready", !.dev = dev,
                              !.config = [temp_b_coefficient |-> cb,
                                          temp_nominal_r |-> cn,
                                          temp_series_resistor |-> cs]]
    /\ UNCHANGED <<relayVars, xfer, sync, conv, busVars, orchVars>>

\* one call of raw_to_celsius (from read_temp_raw or read_temp_rsum)
RawToCelsiusCall(fail) ==
    /\ calib.phase = "ready" /\ calib.calls < MaxCalls
    /\ LET r == raw_to_celsius(calib, fail)
       IN  calib' = [r.d EXCEPT !.calls = @ + 1, !.ret = r.status]
    /\ UNCHANGED <<relayVars, xfer, sync, conv, busVars, orchVars>>

(***************************************************************************)
(* The shared bus: the threads of mainloop that reach the peripheral, each *)
(* bus operation a step of its own.  What the threads do with the values   *)
(* they read is in LogCycle and ActuatorCycle.                             *)
(***************************************************************************)
Threads == {"log", "actuator", "server"}

\* the lock taken without waiting for it
DomoFreeAlways(t) == TRUE

\* domo.lock().unwrap() returns once no thread holds the Mutex
DomoFree(t) == domo_lock = ""

\* exchanges begun so far
Begun ==
    Cardinality({spi[i].x : i \in 1..Len(spi)}
                \cup {plan[t][1].x : t \in {u \in Threads : plan[u] # <<>>}})

\* the operations of an exchange, each with its thread and exchange number
Tagged(t, ops) ==
    [i \in 1..Len(ops) |-> [t |-> t, x |-> Begun + 1, op |-> ops[i].op, byte |-> ops[i].byte]]

\* thread t takes the lock and starts the exchange that makes ops
DomoLock(t, ops) ==
    /\ DomoFree(t) /\ domo_lock # t /\ plan[t] = <<>>
    /\ Begun < MaxExchanges
    /\ domo_lock' = t
    /\ plan' = [plan EXCEPT ![t] = Tagged(t, ops)]
    /\ UNCHANGED <<relayVars, cliVars, spi, orchVars>>

\* log: domo.lock().unwrap().peripheral.read_number(CMD_TEMP_AVG, 2)
LogRead(rx, ioAt) == DomoLock("log", read_number(CMD_TEMP_AVG, 2, rx, ioAt).ops)

\* actuator_to_server: domo.lock(), domo.peripheral.read_number(CMD_COLOR, 4)
ActuatorRead(rx, ioAt) == DomoLock("actuator", read_number(CMD_COLOR, 4, rx, ioAt).ops)

\* msg_from_server: domo.lock(), domo.peripheral.write_number(CMD_COLOR, 4, color_raw)
ServerWrite(c, ioAt) == DomoLock("server", write_number(CMD_COLOR, 4, ColorRaw(c), ioAt).ops)

\* one self.spi.write or self.spi.read of the exchange of thread t
BusStep(t) ==
    /\ plan[t] # <<>>
    /\ spi' = Append(spi, Head(plan[t]))
    /\ plan' = [plan EXCEPT ![t] = Tail(plan[t])]
    /\ UNCHANGED <<relayVars, cliVars, domo_lock, orchVars>>

\* the MutexGuard of thread t is dropped
DomoUnlock(t) ==
    /\ domo_lock = t /\ plan[t] = <<>>
    /\ domo_lock' = ""
    /\ UNCHANGED <<relayVars, cliVars, plan, spi, orchVars>>

(***************************************************************************)
(* The loops of the three threads of mainloop, each with its locks: log in *)
(* the main thread, actuator_to_server and msg_from_server.  A read or a   *)
(* write of the peripheral is one step here; its bus operations are those  *)
(* of BusStep above.                                                       *)
(***************************************************************************)
\* the colour words the peripheral may hold: rgb ff 00 00, and rgb with bit 2
\* of the first byte set
OrchWords == {U32(255, 0), U32(1024, 0)}

OrchAnswers ==
    Answers(GetterCmd(CMD_COLOR, 4), {EncodeNumber(w, 4) : w \in OrchWords})

\* how a call of read_number or write_number ended: "Ok", or the kind of error
Outcome(r) == IF r.status = "Ok" THEN "Ok" ELSE r.err

\* one read or write of a loop: the thread, how the call ended, encode(stored
\* state) before it, the word read or written, whether a message follows
Event(t, outcome, before, word, sent) ==
    [t |-> t, outcome |-> outcome, before |-> before, word |-> word, sent |-> sent]

\* turns begun: those that have made their call and those about to
Turns == Len(hist) + Cardinality({t \in Threads : tpc[t] \in {"lock", "read", "write"}})

\* a guard that is never dropped
ReleasedNever(t, lock) == lock

\* the MutexGuard of thread t goes out of scope
Released(t, lock) == IF lock = t THEN "" ELSE lock

\* the Err arm never taken
ReadFailedNever(r) == FALSE

\* Err(err) of the match on read_number
ReadFailed(r) == r.status # "Ok"

\* the negation of: if domo.color.raw() == color_raw { continue; }
ColorChanged(self, raw) == ColorRaw(self) # raw

\* thread::sleep returns in log's or actuator_to_server's loop, or
\* rx_msg_from_server.recv() returns a colour message in msg_from_server
OrchWake(t) ==
    /\ Running /\ tpc[t] \in {"sleep", "recv"}
    /\ Turns < MaxCycles
    /\ tpc' = [tpc EXCEPT ![t] = "lock"]
    /\ UNCHANGED <<relayVars, cliVars, busVars, tx_lock, hist>>

\* domo.lock().unwrap()
OrchLockDomo(t) ==
    /\ Running /\ tpc[t] = "lock" /\ domo_lock = ""
    /\ domo_lock' = t
    /\ tpc' = [tpc EXCEPT ![t] = IF t = "server" THEN "write" ELSE "read"]
    /\ UNCHANGED <<relayVars, cliVars, plan, spi, tx_lock, hist>>

\* tx_msg_to_server.lock().unwrap()
OrchLockTx(t) ==
    /\ Running /\ tpc[t] = "txlock" /\ tx_lock = ""
    /\ tx_lock' = t
    /\ tpc' = [tpc EXCEPT ![t] = "send"]
    /\ UNCHANGED <<relayVars, cliVars, busVars, hist>>

\* log: read_number(CMD_TEMP_AVG, 2) under the guard that lives for that
\* statement only; Err: "failed to read temperature", None, return
LogPoll(rx, ioAt) ==
    /\ Running /\ tpc["log"] = "read"
    /\ LET r == read_number(CMD_TEMP_AVG, 2, rx, ioAt)
       IN  /\ hist' = Append(hist, Event("log", Outcome(r), ColorRaw(color), r.val,
                                         ~ReadFailed(r)))
           /\ tpc' = [tpc EXCEPT !["log"] = IF ReadFailed(r) THEN "sleep" ELSE "txlock"]
    /\ domo_lock' = Released("log", domo_lock)
    /\ UNCHANGED <<relayVars, cliVars, plan, spi, tx_lock>>

\* log: tx_msg_to_server.lock().unwrap().send(msg).unwrap()
LogSend ==
    /\ Running /\ tpc["log"] = "send"
    /\ Enqueue("sensorLog")
    /\ tx_lock' = Released("log", tx_lock)
    /\ tpc' = [tpc EXCEPT !["log"] = "sleep"]
    /\ UNCHANGED <<socketVars, color, cliVars, busVars, hist>>

\* actuator_to_server: read_number(CMD_COLOR, 4), the comparison with
\* domo.color.raw() and domo.color.update(color_raw); both continue
\* statements drop the guard of domo
ActuatorPoll(rx, ioAt) ==
    /\ Running /\ tpc["actuator"] = "read"
    /\ LET r    == read_number(CMD_COLOR, 4, rx, ioAt)
           send == ~ReadFailed(r) /\ ColorChanged(color, r.val)
       IN  /\ hist' = Append(hist, Event("actuator", Outcome(r), ColorRaw(color), r.val, send))
           /\ IF send
              THEN /\ color' = ColorUpdate(color, r.val)
                   /\ tpc' = [tpc EXCEPT !["actuator"] = "txlock"]
                   /\ domo_lock' = domo_lock
              ELSE /\ color' = color
                   /\ tpc' = [tpc EXCEPT !["actuator"] = "sleep"]
                   /\ domo_lock' = Released("actuator", domo_lock)
    /\ UNCHANGED <<socketVars, chan, nextId, fate, cliVars, plan, spi, tx_lock>>

\* actuator_to_server: tx_msg_to_server.lock().unwrap().send(msg).unwrap(),
\* then the end of the loop body drops the guard of domo
ActuatorSend ==
    /\ Running /\ tpc["actuator"] = "send"
    /\ Enqueue("actuator")
    /\ tx_lock' = Released("actuator", tx_lock)
    /\ domo_lock' = Released("actuator", domo_lock)
    /\ tpc' = [tpc EXCEPT !["actuator"] = "sleep"]
    /\ UNCHANGED <<socketVars, color, cliVars, plan, spi, hist>>

\* msg_from_server: domo.color = value, write_number(CMD_COLOR, 4, color_raw);
\* an error is printed and the loop goes back to recv()
ServerSet(c, ioAt) ==
    /\ Running /\ tpc["server"] = "write"
    /\ color' = c
    /\ LET r == write_number(CMD_COLOR, 4, ColorRaw(c), ioAt)
       IN  hist' = Append(hist, Event("server", Outcome(r), ColorRaw(color), ColorRaw(c), FALSE))
    /\ domo_lock' = Released("server", domo_lock)
    /\ tpc' = [tpc EXCEPT !["server"] = "recv"]
    /\ UNCHANGED <<socketVars, chan, nextId, fate, cliVars, plan, spi, tx_lock>>

(***************************************************************************)
(* Peripheral::resync, as the resync command of main runs it.  The         *)
(* peripheral follows a script fixed when the command starts: whether and  *)
(* after how many polls it answers 0xff, what it answers before, the three *)
(* bytes it sends next, and which bus operation fails (0: none).           *)
(***************************************************************************)
SYNC_SIGNATURE == <<205, 171, 31>>

SyncJunk == {0, 205}
SyncTails == {SYNC_SIGNATURE, <<205, 171, 32>>, <<255, 171, 31>>, <<0, 0, 0>>}
SyncIoAts == {0, 1, 2, 4}

SyncScripts ==
    [answers : BOOLEAN, ffAfter : 0..MaxPolls, junk : SyncJunk,
     tail : SyncTails, ioAt : SyncIoAts]

NoScript == [answers |-> FALSE, ffAfter |-> 0, junk |-> 0, tail |-> <<>>, ioAt |-> 0]

NoSync ==
    [phase |-> "idle", dev |-> NoScript, nops |-> 0, polls |-> 0, reads |-> 0,
     buf |-> <<>>, sawFF |-> FALSE, res |-> "none", exit |-> "none"]

\* the loop left at any byte
PollDoneAny(b) == TRUE

\* if transfer.rx_buf.unwrap()[0] == 0xff { break }
PollDone(b) == b = START_BYTE

\* the last byte of the signature not compared
SignatureOkPrefix(buf) == SubSeq(buf, 1, 2) = SubSeq(SYNC_SIGNATURE, 1, 2)

\* &buf[..] == [0xcd, 0xab, 0x1f]
SignatureOk(buf) == buf = SYNC_SIGNATURE

\* the next bus operation meets the I/O error of the script
SyncIoFails == sync.dev.ioAt = sync.nops + 1

\* the count of bus operations, no longer kept once it is past every
\* operation a script may fail
SyncCount(n) == Min2(n + 1, MaxPolls + 5)

\* what the peripheral answers to the next poll
SyncPolled ==
    IF sync.dev.answers /\ sync.polls = sync.dev.ffAfter THEN START_BYTE
    ELSE sync.dev.junk

\* try!(...) on a failed bus operation: resync returns the error
SyncIoError == [sync EXCEPT !.phase = "returned", !.res = "io"]

\* main: Some(ref cmd) if cmd == "resync" => domo.resync()
ResyncCall(script) ==
    /\ sync = NoSync
    /\ sync' = [NoSync EXCEPT !.phase = "write", !.dev = script]
    /\ UNCHANGED <<relayVars, xfer, conv, calib, busVars, orchVars>>

\* try!(self.spi.write(&[cmd]))
ResyncWrite ==
    /\ sync.phase = "write"
    /\ sync' = IF SyncIoFails THEN SyncIoError
               ELSE [sync EXCEPT !.phase = "poll", !.nops = SyncCount(sync.nops)]
    /\ UNCHANGED <<relayVars, xfer, conv, calib, busVars, orchVars>>

\* one turn of the loop: sleep, transfer, compare
ResyncPoll ==
    /\ sync.phase = "poll"
    /\ sync' = IF SyncIoFails THEN SyncIoError
               ELSE [sync EXCEPT !.nops = SyncCount(sync.nops),
                                 !.polls = Min2(sync.polls + 1, MaxPolls + 1),
                                 !.sawFF = (SyncPolled = START_BYTE),
                                 !.phase = IF PollDone(SyncPolled) THEN "read" ELSE "poll"]
    /\ UNCHANGED <<relayVars, xfer, conv, calib, busVars, orchVars>>

\* one turn of for i in 0..3: sleep, read one byte into buf[i]
ResyncRead ==
    /\ sync.phase = "read" /\ sync.reads < 3
    /\ sync' = IF SyncIoFails THEN SyncIoError
               ELSE [sync EXCEPT !.nops = SyncCount(sync.nops),
                                 !.reads = sync.reads + 1,
                                 !.buf = Append(sync.buf, sync.dev.tail[sync.reads + 1])]
    /\ UNCHANGED <<relayVars, xfer, conv, calib, busVars, orchVars>>

\* is this the correct response?
ResyncCheck ==
    /\ sync.phase = "read" /\ sync.reads = 3
    /\ sync' = [sync EXCEPT !.phase = "returned",
                            !.res = IF SignatureOk(sync.buf) THEN "Ok" ELSE "signature"]
    /\ UNCHANGED <<relayVars, xfer, conv, calib, busVars, orchVars>>

\* main: Ok(_) => println!("done"), Err(err) => process::exit(1)
ResyncExit ==
    /\ sync.phase = "returned"
    /\ sync' = [sync EXCEPT !.phase = "ended",
                            !.exit = IF sync.res = "Ok" THEN "0" ELSE "1"]
    /\ UNCHANGED <<relayVars, xfer, conv, calib, busVars, orchVars>>

ResyncStep == ResyncWrite \/ ResyncPoll \/ ResyncRead \/ ResyncCheck \/ ResyncExit

(***************************************************************************)
(* Specifications.                                                         *)
(***************************************************************************)
Init ==
    /\ proc = "running"
    /\ pc = "connect"
    /\ delay_seconds = 1
    /\ conn = 0
    /\ verified_time = FALSE
    /\ chan = <<>>
    /\ st = [c \in Conns |-> "unborn"]
    /\ held = [c \in Conns |-> NoMsg]
    /\ wire = <<>>
    /\ to_orch = <<>>
    /\ nextId = 0
    /\ fate = [i \in MsgIds |-> "none"]
    /\ vtAtRecv = [i \in MsgIds |-> FALSE]
    /\ timeOkOn = {}
    /\ fails = 0
    /\ slept = 0
    /\ peak = 0
    /\ last = NoShape
    /\ color = ColorNew
    /\ xfer = NoXfer
    /\ sync = NoSync
    /\ conv = NoConv
    /\ calib = NoCalib
    /\ domo_lock = ""
    /\ plan = [t \in Threads |-> <<>>]
    /\ spi = <<>>
    /\ tpc = [t \in Threads |-> IF t = "server" THEN "recv" ELSE "sleep"]
    /\ tx_lock = ""
    /\ hist = <<>>

Reconnect ==
    \/ ConnectFail
    \/ \E helloOk \in BOOLEAN : ConnectOpen(helloOk)
    \/ CloseOk
    \/ CloseErr
    \/ Wake

\* connections that come and go, without the failures that only move the
\* backoff delay
Lifecycle ==
    \/ \E helloOk \in BOOLEAN : ConnectOpen(helloOk)
    \/ CloseOk
    \/ Wake

Receive == \E m \in InMsgs, now \in Nows : OnMessage(m, now)

\* the time messages of a server whose clock is right, or a minute off
GateMsgs == {m \in TimeMsgs : m.timestamp \in {0, 60}}

\* a time message of a server whose clock is right
SyncedTime == CHOOSE m \in TimeMsgs : m.hasTs /\ m.timestamp = 0

ReceiveTime == \E m \in GateMsgs : OnMessage(m, 0)

SendThread ==
    \E c \in Conns :
        \/ SendLock(c)
        \/ SendRecv(c)
        \/ \E sendOk \in BOOLEAN : SendCheck(c, sendOk)

Producers ==
    \/ \E rx \in TempAnswers, ioAt \in CycleIoAt : LogCycle(rx, ioAt)
    \/ \E rx \in ColorAnswers, ioAt \in CycleIoAt : ActuatorCycle(rx, ioAt)

\* the relay's outbound path: connections, the time gate, the send threads
\* and the producers
Next == Lifecycle \/ ReceiveTime \/ SendThread \/ Producers

Spec == Init /\ [][Next]_vars

\* the reconnect loop with its failures, together with the send threads, the
\* telemetry producer and the time message that opens the gate
NextHello ==
    \/ Reconnect
    \/ OnMessage(SyncedTime, 0)
    \/ SendThread
    \/ \E rx \in TempAnswers, ioAt \in CycleIoAt : LogCycle(rx, ioAt)

SpecHello == Init /\ [][NextHello]_vars

\* the reconnect loop
NextBackoff == Reconnect

SpecBackoff == Init /\ [][NextBackoff]_vars

\* the relay's inbound path: every kind of frame on an open connection
NextInbound ==
    \/ Lifecycle
    \/ Receive
    \/ \E rx \in TempAnswers, ioAt \in CycleIoAt : LogCycle(rx, ioAt)

SpecInbound == Init /\ [][NextInbound]_vars

NextBus ==
    /\ xfer = NoXfer
    /\ \/ \E cmd \in Opcodes, length \in Lengths, ioAt \in IoAts :
              \E rx \in RxSeqs(cmd, length) : ReadNumberCall(cmd, length, rx, ioAt)
       \/ \E cmd \in Opcodes, length \in BadLengths :
              \E rx \in RxSeqs(cmd, 4) : ReadNumberCall(cmd, length, rx, 0)
       \/ \E cmd \in Opcodes, length \in Lengths \cup BadLengths :
              \E value \in WriteValues, ioAt \in WriteIoAts :
                  WriteNumberCall(cmd, length, value, ioAt)

SpecBus == Init /\ [][NextBus]_vars

\* the resync command; the process keeps running its own steps
NextResync == (\E script \in SyncScripts : ResyncCall(script)) \/ ResyncStep

SpecResync == Init /\ [][NextResync]_vars /\ WF_vars(ResyncStep)

\* codec conversions
NextCodec ==
    /\ conv = NoConv
    /\ \/ \E raw \in ConvWords : FromRawCall(raw)
       \/ \E c \in ConvColors, raw \in {U32(255, 32768)} : RawCall(c, raw)

SpecCodec == Init /\ [][NextCodec]_vars

\* the calibration constants over a run of one Domo
NextCalib ==
    \/ \E cb \in ConfigBCoefficients, cn \in ConfigNominalRs,
          cs \in ConfigSeriesResistors, dev \in DevConstants : DomoNew(cb, cn, cs, dev)
    \/ \E fail \in CalibFails : RawToCelsiusCall(fail)

SpecCalib == Init /\ [][NextCalib]_vars

\* the threads of mainloop on the shared bus
NextDomo ==
    \/ \E rx \in TempAnswers, ioAt \in CycleIoAt : LogRead(rx, ioAt)
    \/ \E rx \in ColorAnswers, ioAt \in CycleIoAt : ActuatorRead(rx, ioAt)
    \/ \E c \in ServerColors, ioAt \in WriteIoAts : ServerWrite(c, ioAt)
    \/ \E t \in Threads : BusStep(t) \/ DomoUnlock(t)

SpecDomo == Init /\ [][NextDomo]_vars

\* the loops of the threads of mainloop
LogLoop ==
    \/ OrchWake("log") \/ OrchLockDomo("log") \/ OrchLockTx("log")
    \/ \E rx \in TempAnswers, ioAt \in CycleIoAt : LogPoll(rx, ioAt)
    \/ LogSend

ActuatorLoop ==
    \/ OrchWake("actuator") \/ OrchLockDomo("actuator") \/ OrchLockTx("actuator")
    \/ \E rx \in OrchAnswers, ioAt \in CycleIoAt : ActuatorPoll(rx, ioAt)
    \/ ActuatorSend

ServerLoop ==
    \/ OrchWake("server") \/ OrchLockDomo("server")
    \/ \E c \in ServerColors, ioAt \in WriteIoAts : ServerSet(c, ioAt)

NextOrch == LogLoop \/ ActuatorLoop \/ ServerLoop

SpecOrch == Init /\ [][NextOrch]_vars

\* thread t, when it is neither asleep nor waiting for a lock, goes on: it
\* returns from read_number or write_number, or sends.  The return is taken
\* with an I/O error; it is enabled exactly when any return of the call is.
OrchRun(t) ==
    \/ /\ t = "log"
       /\ (\E rx \in TempAnswers : LogPoll(rx, 3)) \/ LogSend
    \/ /\ t = "actuator"
       /\ (\E rx \in OrchAnswers : ActuatorPoll(rx, 3)) \/ ActuatorSend
    \/ /\ t = "server"
       /\ \E c \in ServerColors : ServerSet(c, 1)

\* the loops with their scheduling: a running thread makes its next step, and
\* a thread waiting in lock() gets the Mutex if it is free again and again;
\* how long a thread sleeps or waits in recv() is left open
SpecOrchFair ==
    /\ Init /\ [][NextOrch]_vars
    /\ \A t \in Threads : WF_vars(OrchRun(t))
    /\ \A t \in Threads : SF_vars(OrchLockDomo(t))
    /\ \A t \in {"log", "actuator"} : SF_vars(OrchLockTx(t))

(***************************************************************************)
(* Properties.                                                             *)
(***************************************************************************)
\* the queued messages on the wire, without the hello messages
Transmitted == SelectSeq(wire, LAMBDA w : w.kind # "connect")

\* message i has left the channel
Dequeued(i) == fate[i] \in {"held", "dropped", "sent", "lost"}

\* the send thread has finished with message i
Settled(i) == fate[i] \in {"dropped", "sent", "lost"}

C2_PerConnection ==
    /\ pc = "open" /\ conn \notin timeOkOn => ~verified_time
    /\ \A k \in 1..Len(Transmitted) : Transmitted[k].conn \in timeOkOn

\* C3, as claimed: the first three consecutive failures of a fresh relay sleep
\* 1, 2 and 4 seconds, and the first failure after an established connection
\* sleeps 1 second.
C3_DelaysFromOne ==
    /\ pc = "sleep" /\ conn = 0 /\ fails \in 1..3 => slept = Pow2(fails - 1)
    /\ pc = "sleep" /\ conn > 0 /\ fails = 1 => slept = 1

\* C3, amended: the first three consecutive failures of a fresh relay sleep
\* 2, 4 and 8 seconds (the delay is doubled before it is slept), and the first
\* Err return of ws::connect after an established connection sleeps 2 seconds.
C3_DelaysFromTwo ==
    /\ pc = "sleep" /\ conn = 0 /\ fails = 1 => slept = 2
    /\ pc = "sleep" /\ conn = 0 /\ fails = 2 => slept = 4
    /\ pc = "sleep" /\ conn = 0 /\ fails = 3 => slept = 8
    /\ pc = "sleep" /\ conn > 0 /\ fails = 1 => slept = 2

\* C3 witness: after three failures in a row and then an established
\* connection, the relay sleeps after the next failure.
C3_Witness ==
    pc = "sleep" /\ conn > 0 /\ fails = 1 /\ peak >= 3

\* C4: the delay is always one of 1, 2, 4, 8, 16, 32, 60; a failed attempt
\* sets it to min(60, 2 * delay), an established connection sets it to 1, and
\* no other step changes it.
C4_Backoff ==
    /\ [](delay_seconds \in {1, 2, 4, 8, 16, 32, 60})
    /\ [][/\ ConnectFail \/ CloseErr =>
                delay_seconds' = (IF 2 * delay_seconds < 60 THEN 2 * delay_seconds ELSE 60)
          /\ (\E h \in BOOLEAN : ConnectOpen(h)) => delay_seconds' = 1
          /\ delay_seconds' # delay_seconds =>
                ConnectFail \/ CloseErr \/ \E h \in BOOLEAN : ConnectOpen(h)]_vars

\* C4 witness: the delay has reached the cap and a further failure kept it.
C4_Witness == pc = "sleep" /\ delay_seconds = 60 /\ fails = 7

\* C5, as claimed: neither the process nor the reconnect loop ever ends.
C5_NeverStops == proc = "running" /\ pc # "panicked"

\* C6: the queued messages on the wire are in the order they were enqueued,
\* none twice, and a message discarded by the gate is not among them.
C6_Order ==
    /\ \A a, b \in 1..Len(Transmitted) :
        a < b => Transmitted[a].id < Transmitted[b].id
    /\ \A k \in 1..Len(Transmitted) : Transmitted[k].id \in 1..nextId
    /\ \A i \in MsgIds :
        fate[i] = "dropped" => \A k \in 1..Len(Transmitted) : Transmitted[k].id # i

\* C6 witness: messages of both producers were transmitted, after an earlier
\* message was discarded.
C6_Witness ==
    /\ Len(Transmitted) >= 2
    /\ Transmitted[1].kind # Transmitted[2].kind
    /\ \E i \in MsgIds : fate[i] = "dropped" /\ i < Transmitted[1].id

\* the distance between two timestamps, as integers
Distance(a, b) == IF a < b THEN b - a ELSE a - b

\* C7, as claimed: handling a time message leaves verified_time true exactly
\* when it was true before or the message carries a timestamp less than 60
\* seconds from local time.
C7_TrustIffInSync ==
    [][\A m \in TimeMsgs, now \in Nows :
          OnMessage(m, now) =>
              verified_time' =
                  (verified_time \/ (m.hasTs /\ Distance(m.timestamp, now) < 60))]_vars

\* C8: text that does not parse, or whose discriminator is neither "time" nor
\* "actuator", leaves the connection open and the flag, the delay, the
\* outbound queue and the stored colour as they were.
C8_Dropped ==
    [][\A m \in MalformedMsgs \cup UnknownMsgs, now \in Nows :
          OnMessage(m, now) =>
              /\ pc' = "open" /\ proc' = "running"
              /\ UNCHANGED <<verified_time, delay_seconds, chan, color, to_orch>>]_vars

\* C8 witness: such a frame was the last one handled, on a verified
\* connection with a message waiting in the queue.
C8_Witness ==
    /\ last \in {MsgShape(m, now) : m \in MalformedMsgs, now \in Nows}
    /\ pc = "open" /\ verified_time /\ chan # <<>>

\* C9, as claimed: an actuator message named "color" that carries a value is
\* passed on to the orchestrator, and no other actuator message is.
C9_Forwarded ==
    [][\A m \in ActuatorMsgs, now \in Nows :
          OnMessage(m, now) =>
              to_orch' = IF m.hasName /\ m.name = "color" /\ m.hasValue
                         THEN Append(to_orch, m)
                         ELSE to_orch]_vars

\* the command byte and the little-endian value, from the frame layout
FrameCmd(cmd, length) == cmd + (IF length = 2 THEN 0 ELSE 64)
FrameValue(data, length) ==
    IF length = 2 THEN U32(0, data[1] + 256 * data[2])
    ELSE U32(data[3] + 256 * data[4], data[1] + 256 * data[2])
FrameData(x) == [i \in 1..x.length |-> x.rx[i + 1]]
FrameCrcOk(x) ==
    x.rx[x.length + 2] =
        Crc8Calc(<<FrameCmd(x.cmd, x.length)>> \o FrameData(x), x.length + 1, 0)
Exchanged == xfer.call = "read_number" /\ xfer.ioAt = 0 /\ xfer.length \in Lengths

\* C10, as claimed: with all bytes received, read_number fails when the
\* checksum byte differs from CRC8(command ++ data) and otherwise returns the
\* little-endian value of the data.
C10_ChecksumOnly ==
    Exchanged =>
        IF FrameCrcOk(xfer)
        THEN xfer.res.status = "Ok" /\ xfer.res.val = FrameValue(FrameData(xfer), xfer.length)
        ELSE xfer.res.status = "Err"

\* C10, amended: with all bytes received, read_number returns a value exactly
\* when the byte read right after the command is the start byte 0xff and the
\* checksum byte equals CRC8(command ++ data); the value is then the
\* little-endian value of the data; otherwise it returns an error and no value.
C10_StartAndChecksum ==
    Exchanged =>
        IF xfer.rx[1] = 255 /\ FrameCrcOk(xfer)
        THEN xfer.res.status = "Ok" /\ xfer.res.val = FrameValue(FrameData(xfer), xfer.length)
        ELSE xfer.res.status = "Err" /\ xfer.res.val = U32(0, 0)

\* C10 witness: a four-byte read was accepted whose value needs all 32 bits.
C10_Witness ==
    /\ Exchanged /\ xfer.length = 4 /\ xfer.res.status = "Ok"
    /\ xfer.res.val = U32(65535, 28695)

\* the bus operations of the exchange in xfer
Ops == xfer.res.ops

\* C11, as claimed: a read_number exchange that returns a value is one write
\* of the command byte followed by exactly length + 1 single-byte reads, the
\* data and then the checksum, with nothing read in between.
C11_CommandThenData ==
    xfer.call = "read_number" /\ xfer.res.status = "Ok" =>
        /\ Len(Ops) = xfer.length + 2
        /\ Ops[1] = [op |-> "write", byte |-> FrameCmd(xfer.cmd, xfer.length)]
        /\ \A i \in 2..Len(Ops) : Ops[i].op = "read"

\* C11, amended: absent I/O errors, a read_number exchange is one write of
\* the command byte (opcode OR getter tag), then one single-byte read that
\* must yield the start byte 0xff; when it does not, the exchange ends there
\* with an error; when it does, exactly length + 1 further single-byte reads
\* follow, the data and then the checksum, and a returned value is the
\* little-endian value of those data bytes.
C11_StartThenData ==
    Exchanged =>
        /\ Len(Ops) >= 2
        /\ Ops[1] = [op |-> "write", byte |-> FrameCmd(xfer.cmd, xfer.length)]
        /\ Ops[2] = [op |-> "read", byte |-> xfer.rx[1]]
        /\ IF xfer.rx[1] # 255
           THEN Len(Ops) = 2 /\ xfer.res.status = "Err"
           ELSE /\ Len(Ops) = xfer.length + 3
                /\ \A i \in 1..(xfer.length + 1) :
                      Ops[i + 2] = [op |-> "read", byte |-> xfer.rx[i + 1]]
                /\ xfer.res.status = "Ok" =>
                      /\ xfer.res.val =
                            FrameValue([i \in 1..xfer.length |-> Ops[i + 2].byte], xfer.length)
                      /\ Ops[xfer.length + 3].byte =
                            Crc8Calc(<<Ops[1].byte>> \o [i \in 1..xfer.length |-> Ops[i + 2].byte],
                                     xfer.length + 1, 0)

\* C11 witness: temperature-average was read as 6000 in five bus operations.
C11_Witness ==
    /\ Exchanged /\ xfer.cmd = 18 /\ xfer.length = 2
    /\ xfer.res.status = "Ok" /\ xfer.res.val = U32(0, 6000) /\ Len(Ops) = 5

\* the low n bytes of a word, least significant first
LowBytes(v, n) == SubSeq(<<v.lo % 256, v.lo \div 256, v.hi % 256, v.hi \div 256>>, 1, n)

\* a write_number call of a valid length that met no I/O error
Written == xfer.call = "write_number" /\ xfer.ioAt = 0 /\ xfer.length \in Lengths

\* C12: write_number makes exactly length + 2 single-byte writes and no read:
\* the command byte (opcode OR setter tag), the low length bytes of the value
\* least significant first, then CRC8 of command and data; the data decodes
\* little-endian to value mod 256^length.
C12_WriteFrame ==
    Written =>
        /\ xfer.res.status = "Ok"
        /\ Len(Ops) = xfer.length + 2
        /\ \A i \in 1..Len(Ops) : Ops[i].op = "write"
        /\ Ops[1].byte = xfer.cmd + (IF xfer.length = 2 THEN 128 ELSE 192)
        /\ LET data == [i \in 1..xfer.length |-> Ops[i + 1].byte]
           IN  /\ data = LowBytes(xfer.value, xfer.length)
               /\ Ops[xfer.length + 2].byte =
                     Crc8Calc(<<Ops[1].byte>> \o data, xfer.length + 1, 0)
               /\ FrameValue(data, xfer.length) =
                     (IF xfer.length = 2 THEN U32(0, xfer.value.lo) ELSE xfer.value)

\* C12 witness: 0x12345678 was written with length 2, its high half cut off.
C12_Witness ==
    /\ Written /\ xfer.length = 2 /\ xfer.value = U32(4660, 22136)
    /\ xfer.res.status = "Ok" /\ Ops[2].byte = 120 /\ Ops[3].byte = 86

\* C13: read_number and write_number called with a length other than 2 or 4
\* fail before any bus operation: nothing is written or read, no value comes
\* back.
C13_BadLengthFailsFast ==
    xfer.call # "none" /\ xfer.length \notin {2, 4} =>
        /\ xfer.res.status = "panic"
        /\ Ops = <<>>
        /\ xfer.res.val = U32(0, 0)

\* C13 witness: write_number was called with length 3.
C13_Witness ==
    xfer.call = "write_number" /\ xfer.length = 3 /\ xfer.res.status = "panic"

\* resync has returned to main
Resynced == sync.phase \in {"returned", "ended"}

\* C14: absent bus I/O errors, resync passes over every polled byte before
\* the first 0xff, then reads exactly three bytes, and succeeds exactly when
\* they are 0xcd 0xab 0x1f.
C14_Signature ==
    Resynced /\ sync.res # "io" =>
        /\ sync.sawFF
        /\ sync.polls = sync.dev.ffAfter + 1
        /\ sync.reads = 3
        /\ sync.buf = sync.dev.tail
        /\ sync.res \in {"Ok", "signature"}
        /\ sync.res = "Ok" <=> sync.dev.tail = <<205, 171, 31>>

\* C14 witness: resync succeeded after passing over polled bytes 0xcd.
C14_Witness ==
    /\ sync.phase = "ended" /\ sync.res = "Ok" /\ sync.exit = "0"
    /\ sync.dev.junk = 205 /\ sync.polls >= 3

\* the script lets resync end: the peripheral answers 0xff or an operation fails
WillEnd == sync.dev.answers \/ sync.dev.ioAt # 0

\* C15: resync returns only after a polled 0xff or a bus I/O error; when the
\* peripheral never answers 0xff and no operation fails, resync stays in its
\* polling loop for ever and the command never completes; when the peripheral
\* does answer or an operation fails, the command ends.
C15_Termination ==
    /\ [](Resynced => sync.sawFF \/ sync.res = "io")
    /\ [](sync.phase # "idle" /\ ~WillEnd => sync.phase \in {"write", "poll"})
    /\ [](sync.phase # "idle" /\ WillEnd => <>(sync.phase = "ended"))

\* C15 witness: resync is still polling after more polls than the model
\* counts, the peripheral never answering 0xff.
C15_Witness ==
    sync.phase = "poll" /\ ~WillEnd /\ sync.polls = MaxPolls + 1

\* the most significant byte of a word
TopByte(u) == u.hi \div 256

\* C16, as claimed: every raw word whose mode bits are not 11 comes back
\* unchanged from Color::from_raw(raw).raw().
C16_RoundTrip ==
    conv.call = "from_raw" /\ TopByte(conv.raw) % 4 # 3 => conv.out = conv.raw

\* the bits of a first byte, from their positions
Bit7(b) == b >= 128
Bit6(b) == (b % 128) >= 64
ModeOfBits(b) ==
    CASE b % 4 = 0 -> "rgb"
      [] b % 4 = 1 -> "hsv"
      [] b % 4 = 2 -> "hsv-max"
      [] OTHER -> "undefined-1"
BitsOfMode(md) ==
    CASE md = "rgb" -> 0
      [] md = "hsv" -> 1
      [] md = "hsv-max" -> 2
      [] OTHER -> 3

\* C17: decode takes the mode from the low two bits of the first byte,
\* is_white from its bit 7 and is_looping from its bit 6, each whatever the
\* other bits are; encode puts the three back into those positions and sets no
\* other bit of the first byte.
C17_ModeAndFlags ==
    /\ conv.call = "from_raw" =>
          /\ conv.color.mode = ModeOfBits(TopByte(conv.raw))
          /\ conv.color.is_white = Bit7(TopByte(conv.raw))
          /\ conv.color.is_looping = Bit6(TopByte(conv.raw))
    /\ conv.call # "none" =>
          TopByte(conv.out) =
              BitsOfMode(conv.color.mode)
              + (IF conv.color.is_white THEN 128 ELSE 0)
              + (IF conv.color.is_looping THEN 64 ELSE 0)

\* C17 witness: the first byte 0xc6 (white, looping, hsv-max, bit 2 set) was
\* decoded and encoded back as 0xc2.
C17_Witness ==
    /\ conv.call = "from_raw" /\ TopByte(conv.raw) = 198
    /\ conv.color.mode = "hsv-max" /\ conv.color.is_white /\ conv.color.is_looping
    /\ TopByte(conv.out) = 194

\* C18, as claimed: encoding a state whose mode is none of rgb, hsv, hsv-max
\* gives back the raw word stored before (Color::raw has no way to reject).
C18_NoFabrication ==
    conv.call # "none" /\ conv.color.mode \notin {"rgb", "hsv", "hsv-max"} =>
        conv.out = conv.raw

\* C19: the bus operations of one exchange are contiguous on the bus: no
\* operation of another exchange lies between two of its operations, and a
\* thread with operations still to make holds the lock around Domo.
C19_Exclusive ==
    /\ \A i, k \in 1..Len(spi) :
          i < k /\ spi[i].x = spi[k].x => \A j \in i..k : spi[j].x = spi[i].x
    /\ \A t \in Threads : plan[t] # <<>> => domo_lock = t
    /\ \A t, u \in Threads : plan[t] # <<>> /\ plan[u] # <<>> => t = u

\* C19 witness: a complete colour write of the server thread and a complete
\* read of another thread are both on the bus.
C19_Witness ==
    /\ Len(spi) >= 11
    /\ \E i, k \in 1..Len(spi) :
          /\ spi[i].t = "server" /\ spi[i].op = "write" /\ spi[i].byte = 197
          /\ spi[k].t # "server" /\ spi[k].op = "read"
    /\ \A t \in Threads : plan[t] = <<>>

\* the send thread of connection c is blocked in recv() on the empty channel
Waiting(c) == st[c] = "recv" /\ chan = <<>>

OnConn(c) == SelectSeq(wire, LAMBDA e : e.conn = c)

\* the hellos among what was transmitted on connection c
Hellos(c) == SelectSeq(OnConn(c), LAMBDA e : e.kind = "connect")

LastEvent == hist[Len(hist)]

\* thread t has just returned from its read, and the read failed
FailedRead(t) ==
    /\ tpc[t] = "read" /\ tpc'[t] # "read"
    /\ LastEvent'.outcome # "Ok"

\* C22: the step in which the read of log or of actuator_to_server fails
\* enqueues nothing, leaves the stored colour alone, drops the lock of domo,
\* takes the thread back to the top of its loop holding no lock, and leaves
\* the process running.
C22_FailedReadSkips ==
    [][\A t \in {"log", "actuator"} :
          FailedRead(t) =>
              /\ chan' = chan /\ nextId' = nextId /\ fate' = fate
              /\ color' = color
              /\ domo_lock' = "" /\ tx_lock' # t
              /\ tpc'[t] = "sleep"
              /\ proc' = "running"]_vars

\* C22 witness: a checksum error in log's read and an I/O error in the
\* actuator's, both threads back at the top of their loops with no lock held
\* and nothing enqueued.
C22_Witness ==
    /\ \E i, j \in 1..Len(hist) :
          /\ hist[i].t = "log" /\ hist[i].outcome = "crc"
          /\ hist[j].t = "actuator" /\ hist[j].outcome = "io"
    /\ tpc["log"] = "sleep" /\ tpc["actuator"] = "sleep"
    /\ domo_lock = "" /\ tx_lock = "" /\ chan = <<>> /\ proc = "running"

\* the send threads that hold the receiver: blocked in recv() or with a
\* message in hand
Consumers == {c \in Conns : st[c] \in {"recv", "got"}}

\* C23 as stated: at most one send thread consumes at a time, while a
\* connection is open the thread waiting in recv() is that connection's, and
\* the send thread of the open connection can take the receiver's lock
\* without waiting for an earlier thread.
C23_CurrentConsumer ==
    /\ Cardinality(Consumers) <= 1
    /\ pc = "open" => \A c \in Conns : st[c] = "recv" => c = conn
    /\ pc = "open" /\ proc = "running" /\ st[conn] = "lock" => ENABLED SendLock(conn)

\* a successful poll of actuator_to_server
Polled(i) == hist[i].t = "actuator" /\ hist[i].outcome = "Ok"

\* between events i and j the stored colour and the peripheral's word were
\* not touched: only reads of log and failed polls took place
Adjacent(i, j) ==
    /\ i < j
    /\ \A k \in (i + 1)..(j - 1) :
          hist[k].t = "log" \/ (hist[k].t = "actuator" /\ hist[k].outcome # "Ok")

\* the detection rule alone: a successful poll is followed by a message iff
\* the word read differs from encode(stored state)
DetectionRule == \A i \in 1..Len(hist) : Polled(i) => (hist[i].sent <=> hist[i].word # hist[i].before)

\* a colour written for the server and read back unchanged gives no message
ReadBackSilent ==
    \A i, j \in 1..Len(hist) :
        hist[i].t = "server" /\ Polled(j) /\ Adjacent(i, j) /\ hist[j].word = hist[i].word
            => ~hist[j].sent

\* C24 as stated: the detection rule, no message for the second of two
\* consecutive successful polls that return the same word, and no message
\* for a colour written for the server and read back unchanged.
C24_ChangeDetection ==
    /\ DetectionRule
    /\ \A i, j \in 1..Len(hist) :
          Polled(i) /\ Polled(j) /\ Adjacent(i, j) /\ hist[j].word = hist[i].word
              => ~hist[j].sent
    /\ ReadBackSilent

\* thread t waits in lock() for a Mutex that thread u holds
WaitsFor(t, u) ==
    \/ tpc[t] = "lock" /\ domo_lock = u
    \/ tpc[t] = "txlock" /\ tx_lock = u

\* C25: no two threads of mainloop wait for each other, a thread that sleeps
\* or waits in recv() holds neither the lock of domo nor that of
\* tx_msg_to_server, and a thread that asks for a lock gets it.
C25_NoDeadlock ==
    /\ [](\A t, u \in Threads : ~(WaitsFor(t, u) /\ WaitsFor(u, t)))
    /\ [](\A t \in Threads : tpc[t] \in {"sleep", "recv"} => domo_lock # t /\ tx_lock # t)
    /\ \A t \in Threads : tpc[t] = "lock" ~> domo_lock = t
    /\ \A t \in {"log", "actuator"} : tpc[t] = "txlock" ~> tx_lock = t

\* C25 witness: the actuator thread holds domo and waits for the lock of
\* tx_msg_to_server, which log holds, while msg_from_server waits for domo.
C25_Witness ==
    /\ WaitsFor("actuator", "log") /\ WaitsFor("server", "actuator")
    /\ tpc["log"] = "send"

\* the constant opcode cmd stands for, for a Domo configured with cfg
Resolved(cfg, cmd) == IF cfg.some THEN cfg.v ELSE calib.dev[cmd]

\* C26 as stated: after one or more calls of raw_to_celsius, the last Ok,
\* each getter returns the configured value of its own constant if there is
\* one and the peripheral's otherwise, each cache holds nothing or its own
\* constant, and no constant has been read more than once.
C26_Independent ==
    calib.phase = "ready" /\ calib.calls >= 1 /\ calib.ret = "Ok" =>
        /\ get_temp_nominal_r(calib, FALSE).v
               = Resolved(calib.config.temp_nominal_r, CMD_TEMP_NRES)
        /\ get_temp_series_resistor(calib, FALSE).v
               = Resolved(calib.config.temp_series_resistor, CMD_TEMP_SRES)
        /\ calib.temp_nominal_r \in {None, Some(calib.dev[CMD_TEMP_NRES])}
        /\ calib.temp_series_resistor \in {None, Some(calib.dev[CMD_TEMP_SRES])}
        /\ \A c \in DOMAIN calib.reads : calib.reads[c] <= 1

====
